---- MODULE Spec2Model ----
(***************************************************************************)
(* Multi-Task LLM API (app.py, gemini_wrapper.py): three POST handlers     *)
(* behind a flask-limiter Limiter.  The handlers and the limiter's         *)
(* configuration are app.py's; the limiter itself is the flask-limiter     *)
(* library as app.py configures it: fixed-window counters in memory://     *)
(* storage, keyed by the caller's remote address and the route, a          *)
(* decorated limit replacing the default limits (override_defaults).       *)
(***************************************************************************)
EXTENDS Integers, Sequences, FiniteSets, TLC

\* ---------------------------------------------------------------- bounds
MinuteTicks == 2        \* clock resolution: ticks of the model's clock in a minute
MaxTime == 3            \* the clock stops here (always less than an hour)
MaxArrivals == 2        \* requests in a run of Spec
MaxBurst == 12          \* requests in a run of the quota specifications
MaxOver == 1            \* SpecHour: hits counted beyond an exhausted quota
MaxReq == 2             \* SpecConc: requests in flight at once
MaxParties == 2         \* SpecIndep: (client, route) pairs sending requests

\* ------------------------------------------------------ program constants
TextGenerationLimit == 10        \* "10 per minute"
CodeGenerationLimit == 10        \* "10 per minute"
TextClassificationLimit == 10    \* "10 per minute"
DefaultPerDay == 200             \* "200 per day"
DefaultPerHour == 50             \* "50 per hour"

HourTicks == 60 * MinuteTicks
DayTicks == 24 * HourTicks

Clients == {"A", "B"}
Endpoints == {"generate_text", "generate_code", "classify_text"}
Kinds == {"minute", "hour", "day"}

\* ------------------------------------------------------------ JSON values
None == [t |-> "null"]
Absent == [t |-> "absent"]
Str(s) == [t |-> "str", v |-> s]
List(q) == [t |-> "list", v |-> q]

\* Python truthiness of a JSON value (`not prompt`)
Truthy(j) ==
    CASE j.t = "null" -> FALSE
      [] j.t = "absent" -> FALSE
      [] j.t = "str" -> j.v # ""
      [] j.t = "list" -> Len(j.v) > 0

\* data.get(k): the field's value, None when the body has no such field
Get(data, k) == IF data[k].t = "absent" THEN None ELSE data[k]

PromptValues == {Absent, None, Str(""), Str("Say hello")}
TextValues == {Absent, Str(""), Str("This is great!")}
CategoriesValues == {Absent, List(<<>>), List(<<"positive", "negative">>)}
Bodies == [prompt : PromptValues, text : TextValues, categories : CategoriesValues]

EmptyBody == [prompt |-> Absent, text |-> Absent, categories |-> Absent]
FullBody ==
    [prompt |-> Str("Say hello"), text |-> Str("This is great!"),
     categories |-> List(<<"positive", "negative">>)]

\* what the provider does with one call: its text, or the exception it raises
ProviderOutcomes ==
    { [ok |-> TRUE, text |-> "Hello!", msg |-> ""],
      [ok |-> FALSE, text |-> "", msg |-> "API key not valid"] }

VARIABLES now, storage, arrivals, admitted, own, reached, resp, reqs
vars == <<now, storage, arrivals, admitted, own, reached, resp, reqs>>

\* ------------------------------------------------------------ the limiter
\* Limiter(default_limits=["200 per day", "50 per hour"]), by granularity
default_limits ==
    << [kind |-> "hour", amount |-> DefaultPerHour, ticks |-> HourTicks],
       [kind |-> "day", amount |-> DefaultPerDay, ticks |-> DayTicks] >>

\* @limiter.limit("10 per minute") on each post
decorated_limits(ep) ==
    << [kind |-> "minute",
        amount |-> CASE ep = "generate_text" -> TextGenerationLimit
                     [] ep = "generate_code" -> CodeGenerationLimit
                     [] ep = "classify_text" -> TextClassificationLimit,
        ticks |-> MinuteTicks] >>

\* limit(..., override_defaults=True): no decorator of app.py passes False
override_defaults == TRUE

\* the limits one request to ep is checked against, smallest window first
resolve_limits(ep) ==
    decorated_limits(ep) \o (IF override_defaults THEN << >> ELSE default_limits)

\* key_func = get_remote_address, scope = the route
limit_key_shared(lim, c, ep) == <<lim.kind, "A", ep>>
limit_key(lim, c, ep) == <<lim.kind, c, ep>>

Keys == Kinds \X Clients \X Endpoints
NoEntry == [count |-> 0, expiry |-> 0]

\* memory:// storage, get(key): an entry whose window has elapsed is dropped
\* when it is next looked at
storage_get_keep(st, k) == st
storage_get(st, k) == IF st[k].expiry <= now THEN [st EXCEPT ![k] = NoEntry] ELSE st

\* memory:// storage, incr(key, expiry): the window starts with its first hit
storage_incr(st, k, ticks) ==
    LET s1 == storage_get(st, k)
        n == s1[k].count + 1
    IN [s1 EXCEPT ![k] = [count |-> n,
                          expiry |-> IF n = 1 THEN now + ticks ELSE s1[k].expiry]]

\* fixed-window hit: count the request, then compare with the quota
hit_compare_first(st, lim, c, ep) ==
    LET k == limit_key(lim, c, ep)
    IN [storage |-> storage_incr(st, k, lim.ticks),
        ok |-> storage_get(st, k)[k].count <= lim.amount]
hit(st, lim, c, ep) ==
    LET k == limit_key(lim, c, ep)
        s1 == storage_incr(st, k, lim.ticks)
    IN [storage |-> s1, ok |-> s1[k].count <= lim.amount]

\* every limit of the route is hit in turn; the first breach rejects the request
RECURSIVE evaluate_limits(_, _, _, _)
evaluate_limits(st, lims, c, ep) ==
    IF lims = << >> THEN [storage |-> st, ok |-> TRUE]
    ELSE LET h == hit(st, Head(lims), c, ep)
         IN IF ~h.ok THEN h ELSE evaluate_limits(h.storage, Tail(lims), c, ep)

check_request_limit(st, c, ep) == evaluate_limits(st, resolve_limits(ep), c, ep)

\* ----------------------------------------------------------- the adapter
\* generate_text / generate_code / classify_text: one llm.invoke, whose
\* content is returned as it is and whose exception propagates
generate_text(prompt, out) == out
generate_code(prompt, out) == out
classify_text(text, categories, out) == out

\* ---------------------------------------------------------- the handlers
RateLimited == [status |-> 429, key |-> "message", value |-> "Too Many Requests", fn |-> "none", calls |-> 0]
BadRequest(msg) == [status |-> 400, key |-> "error", value |-> msg, fn |-> "none", calls |-> 0]

\* try: ... return {field: text}  except Exception as e: return {'error': str(e)}, 500
respond_retry(field, fn, r) ==
    IF r.ok THEN [status |-> 200, key |-> field, value |-> r.text, fn |-> fn, calls |-> 1]
    ELSE [status |-> 500, key |-> "error", value |-> r.msg, fn |-> fn, calls |-> 2]
respond(field, fn, r) ==
    IF r.ok THEN [status |-> 200, key |-> field, value |-> r.text, fn |-> fn, calls |-> 1]
    ELSE [status |-> 500, key |-> "error", value |-> r.msg, fn |-> fn, calls |-> 1]

\* the check of the required fields
prompt_given_present(data) == data["prompt"].t # "absent"
prompt_given(data) == Truthy(Get(data, "prompt"))
text_or_categories_given(data) == Truthy(Get(data, "text")) \/ Truthy(Get(data, "categories"))
text_and_categories_given(data) == Truthy(Get(data, "text")) /\ Truthy(Get(data, "categories"))

validate(ep, data) ==
    IF ep = "classify_text" THEN text_and_categories_given(data) ELSE prompt_given(data)

validation_error(ep) ==
    IF ep = "classify_text" THEN "Text and categories are required" ELSE "Prompt is required"

TextGeneration_post(data, out) ==
    IF ~prompt_given(data) THEN BadRequest("Prompt is required")
    ELSE respond("generated_text", "generate_text", generate_text(Get(data, "prompt"), out))

CodeGeneration_post(data, out) ==
    IF ~prompt_given(data) THEN BadRequest("Prompt is required")
    ELSE respond("generated_code", "generate_code", generate_code(Get(data, "prompt"), out))

TextClassification_post(data, out) ==
    IF ~text_and_categories_given(data) THEN BadRequest("Text and categories are required")
    ELSE respond("classification", "classify_text",
                 classify_text(Get(data, "text"), Get(data, "categories"), out))

post(ep, data, out) ==
    CASE ep = "generate_text" -> TextGeneration_post(data, out)
      [] ep = "generate_code" -> CodeGeneration_post(data, out)
      [] ep = "classify_text" -> TextClassification_post(data, out)

\* ------------------------------------------------------------------ state
Idle == "idle"
NoResult == [status |-> 0, key |-> "-", value |-> "-", fn |-> "none", calls |-> 0]
NoOutcome == [ok |-> TRUE, text |-> "", msg |-> ""]
NoResp == [client |-> "-", ep |-> "-", body |-> EmptyBody, hits |-> 0, fresh |-> FALSE,
           out |-> NoOutcome] @@ NoResult
NoReq == [pc |-> Idle, client |-> "-", ep |-> "-", body |-> EmptyBody,
          out |-> NoOutcome] @@ NoResult

Terminal == {"responded", "rejected", "rate_limited"}

\* now       the clock, in ticks
\* storage   the limiter's counters: for each key the count and when its window ends
\* resp      the response to the request handled last by Post, with the request
\* reqs      the requests in flight, one per worker thread
\* arrivals  how many requests have arrived
\* admitted  per client, how many of its requests the limiter let through
\* own       per client and route, how many of that client's requests to that
\*           route were counted since its minute window was last found elapsed
\* reached   per client and route, how many requests counted in the current
\*           minute window have invoked the adapter (kept for the requests
\*           that Post handles)
Init ==
    /\ now = 0
    /\ storage = [k \in Keys |-> NoEntry]
    /\ arrivals = 0
    /\ admitted = [c \in Clients |-> 0]
    /\ own = [c \in Clients, ep \in Endpoints |-> 0]
    /\ reached = [c \in Clients, ep \in Endpoints |-> 0]
    /\ resp = NoResp
    /\ reqs = [r \in 1..MaxReq |-> NoReq]

MinuteKey(c, ep) == <<"minute", c, ep>>

\* the minute window of (c, ep) has elapsed (or was never opened)
elapsed(c, ep) == storage[MinuteKey(c, ep)].expiry <= now

\* @limiter.limit wraps post: the limiter is consulted for every request,
\* before the body of post reads the request
limit_applies_valid(ep, data) == validate(ep, data)
limit_applies(ep, data) == TRUE

\* One request handled from arrival to response: the limiter's check made by
\* the decorator, then the body of post.
Post(c, ep, data, out) ==
    LET ev == IF limit_applies(ep, data) THEN check_request_limit(storage, c, ep)
              ELSE [storage |-> storage, ok |-> TRUE]
        r == IF ev.ok THEN post(ep, data, out) ELSE RateLimited
        before == IF elapsed(c, ep) THEN 0 ELSE reached[c, ep]
    IN /\ storage' = ev.storage
       /\ arrivals' = arrivals + 1
       /\ admitted' = IF ev.ok THEN [admitted EXCEPT ![c] = @ + 1] ELSE admitted
       /\ own' = [own EXCEPT ![c, ep] = IF elapsed(c, ep) THEN 1 ELSE @ + 1]
       /\ reached' = [reached EXCEPT ![c, ep] = before + r.calls]
       /\ resp' = [client |-> c, ep |-> ep, body |-> data,
                   hits |-> ev.storage[MinuteKey(c, ep)].count,
                   fresh |-> elapsed(c, ep), out |-> out] @@ r
       /\ UNCHANGED <<now, reqs>>

\* time passes
Tick ==
    /\ now < MaxTime
    /\ now' = now + 1
    /\ UNCHANGED <<storage, arrivals, admitted, own, reached, resp, reqs>>

\* ------------------------------------------- one thread per request, in steps
\* app.run: the development server handles each request in a thread of its
\* own, whatever the other requests are doing
worker_serial(r) == \A r2 \in (1..MaxReq) \ {r} : reqs[r2].pc \in Terminal \cup {Idle}
worker_free(r) == TRUE

\* a request arrives and a worker thread takes it
Receive(r, c, ep, data) ==
    /\ reqs[r].pc = Idle
    /\ reqs' = [reqs EXCEPT ![r] = [NoReq EXCEPT !.pc = "received", !.client = c,
                                                 !.ep = ep, !.body = data]]
    /\ arrivals' = arrivals + 1
    /\ UNCHANGED <<now, storage, admitted, own, reached, resp>>

\* @limiter.limit: the decorator's check, before the body of post
Limit(r) ==
    LET q == reqs[r]
        ev == IF limit_applies(q.ep, q.body) THEN check_request_limit(storage, q.client, q.ep)
              ELSE [storage |-> storage, ok |-> TRUE]
    IN /\ q.pc = "received"
       /\ worker_free(r)
       /\ storage' = ev.storage
       /\ admitted' = IF ev.ok THEN [admitted EXCEPT ![q.client] = @ + 1] ELSE admitted
       /\ own' = [own EXCEPT ![q.client, q.ep] = IF elapsed(q.client, q.ep) THEN 1 ELSE @ + 1]
       /\ reqs' = [reqs EXCEPT ![r] =
                     IF ev.ok
                     THEN [q EXCEPT !.pc = "admitted"]
                     ELSE [pc |-> "rate_limited", client |-> q.client, ep |-> q.ep,
                           body |-> q.body, out |-> q.out] @@ RateLimited]
       /\ UNCHANGED <<now, arrivals, reached, resp>>

\* data = request.get_json(); the check of the required fields
Validate(r) ==
    LET q == reqs[r]
    IN /\ q.pc = "admitted"
       /\ reqs' = [reqs EXCEPT ![r] =
                     IF validate(q.ep, q.body)
                     THEN [q EXCEPT !.pc = "validated"]
                     ELSE [pc |-> "rejected", client |-> q.client, ep |-> q.ep,
                           body |-> q.body, out |-> q.out]
                          @@ BadRequest(validation_error(q.ep))]
       /\ UNCHANGED <<now, storage, arrivals, admitted, own, reached, resp>>

adapter_of(ep) ==
    CASE ep = "generate_text" -> "generate_text"
      [] ep = "generate_code" -> "generate_code"
      [] ep = "classify_text" -> "classify_text"

\* the adapter is called and the thread waits in llm.invoke
Dispatch(r) ==
    LET q == reqs[r]
    IN /\ q.pc = "validated"
       /\ reqs' = [reqs EXCEPT ![r] = [q EXCEPT !.pc = "dispatched", !.calls = @ + 1,
                                                !.fn = adapter_of(q.ep)]]
       /\ UNCHANGED <<now, storage, arrivals, admitted, own, reached, resp>>

\* the provider answers, or fails
ProviderReturn(r, out) ==
    /\ reqs[r].pc = "dispatched"
    /\ reqs' = [reqs EXCEPT ![r] = [@ EXCEPT !.pc = "returned", !.out = out]]
    /\ UNCHANGED <<now, storage, arrivals, admitted, own, reached, resp>>

result_field(ep) ==
    CASE ep = "generate_text" -> "generated_text"
      [] ep = "generate_code" -> "generated_code"
      [] ep = "classify_text" -> "classification"

\* return {field: text}, or except Exception as e: return {'error': str(e)}, 500
Respond(r) ==
    LET q == reqs[r]
        a == respond(result_field(q.ep), q.fn, q.out)
    IN /\ q.pc = "returned"
       /\ reqs' = [reqs EXCEPT ![r] = [q EXCEPT !.pc = "responded", !.status = a.status,
                                                !.key = a.key, !.value = a.value]]
       /\ UNCHANGED <<now, storage, arrivals, admitted, own, reached, resp>>

\* the response is sent and the thread is free for another request
Complete(r) ==
    /\ reqs[r].pc \in Terminal
    /\ reqs' = [reqs EXCEPT ![r] = NoReq]
    /\ UNCHANGED <<now, storage, arrivals, admitted, own, reached, resp>>

HandlerStep(r) == Limit(r) \/ Validate(r) \/ Dispatch(r) \/ Respond(r)

Ok == [ok |-> TRUE, text |-> "Hello!", msg |-> ""]

\* ---------------------------------------------------------- specifications
\* Spec: requests one after another, every client, route, body and provider
\* outcome.
Next ==
    \E c \in Clients, ep \in Endpoints, data \in Bodies, out \in ProviderOutcomes :
        arrivals < MaxArrivals /\ Post(c, ep, data, out)

Spec == Init /\ [][Next]_vars

\* SpecQuota: one client sending a burst to one route, long enough to exhaust
\* the minute's quota, and the clock.
QuotaBodies == {EmptyBody, FullBody}

only_traffic(c, ep) == \A k \in Keys : k # MinuteKey(c, ep) => storage[k] = NoEntry

NextQuota ==
    \/ Tick
    \/ \E c \in Clients, ep \in Endpoints, data \in QuotaBodies, out \in ProviderOutcomes :
          arrivals < MaxBurst /\ only_traffic(c, ep) /\ Post(c, ep, data, out)

SpecQuota == Init /\ [][NextQuota]_vars

\* SpecIndep: bursts from up to MaxParties (client, route) pairs, interleaved;
\* the clock is followed from the moment a quota is used up.
exhausted(c, ep) ==
    ~elapsed(c, ep) /\ storage[MinuteKey(c, ep)].count >= decorated_limits(ep)[1].amount

parties(c, ep) ==
    {k \in Keys : storage[k] # NoEntry} \cup {MinuteKey(c, ep)}

NextIndep ==
    \/ (\E c \in Clients, ep \in Endpoints : exhausted(c, ep)) /\ Tick
    \/ \E c \in Clients, ep \in Endpoints :
          /\ arrivals < MaxBurst
          /\ Cardinality(parties(c, ep)) <= MaxParties
          /\ Post(c, ep, FullBody, Ok)

SpecIndep == Init /\ [][NextIndep]_vars

\* SpecHour: one client that keeps every route at its quota, minute after minute.
NextHour ==
    \/ (\A ep \in Endpoints : exhausted("A", ep)) /\ Tick
    \/ \E ep \in Endpoints :
          /\ admitted["A"] <= DefaultPerHour
          /\ elapsed("A", ep)
             \/ storage[MinuteKey("A", ep)].count < decorated_limits(ep)[1].amount + MaxOver
          /\ Post("A", ep, FullBody, Ok)

SpecHour == Init /\ [][NextHour]_vars

\* SpecConc: requests handled concurrently, a thread each.
ConcBodies == {EmptyBody, FullBody}

NextConc ==
    \E r \in 1..MaxReq :
        \/ \E data \in ConcBodies :
              arrivals < MaxBurst /\ Receive(r, "A", "generate_text", data)
        \/ Limit(r)
        \/ Validate(r)
        \/ Dispatch(r)
        \/ \E out \in ProviderOutcomes : ProviderReturn(r, out)
        \/ Respond(r)
        \/ Complete(r)

SpecConc == Init /\ [][NextConc]_vars

\* the scheduler runs every thread that can take a step; nothing makes the
\* provider answer
FairSpec == SpecConc /\ \A r \in 1..MaxReq : WF_vars(HandlerStep(r))

\* ------------------------------------------------------------------ claims
limit_of(ep) == decorated_limits(ep)[1].amount
Handled == resp.status # 0
Generation == {"generate_text", "generate_code"}

C4_QuotaPerMinute ==
    /\ \A c \in Clients, ep \in Endpoints : reached[c, ep] <= limit_of(ep)
    /\ (Handled /\ resp.hits > limit_of(resp.ep))
       => (resp.status = 429 /\ resp.calls = 0 /\ resp.fn = "none")

\* ten requests of the window reached classify_text and the next one is refused
C4_Witness ==
    /\ resp.ep = "classify_text"
    /\ resp.status = 429
    /\ reached[resp.client, resp.ep] = limit_of(resp.ep)

\* C5: every request is also counted against the client's 50-per-hour (and
\* 200-per-day) windows, so that no client has more than 50 requests admitted
\* within one hour.
C5_HourlyQuota ==
    now < HourTicks => \A c \in Clients : admitted[c] <= DefaultPerHour

\* C6: for an admitted request that passes validation the adapter of its route
\* is invoked exactly once; if the provider fails the answer is 500 with the
\* failure's text under "error", otherwise 200 with the provider's text in the
\* route's result field.
C6_OneCallMapped ==
    (Handled /\ resp.hits <= limit_of(resp.ep) /\ validate(resp.ep, resp.body))
    => /\ resp.calls = 1
       /\ resp.fn = adapter_of(resp.ep)
       /\ resp.out.ok => (resp.status = 200 /\ resp.key = result_field(resp.ep)
                            /\ resp.value = resp.out.text)
       /\ ~resp.out.ok => (resp.status = 500 /\ resp.key = "error"
                             /\ resp.value = resp.out.msg)
       /\ resp.status \notin {400, 429}

\* the provider failed on a classification
C6_Witness ==
    /\ resp.ep = "classify_text"
    /\ resp.status = 500
    /\ resp.value = "API key not valid"
    /\ resp.calls = 1

\* C7: the limiter comes before validation: a request over the quota is answered
\* 429 whether or not its body is valid, a 400 is given only to a request within
\* the quota, and the request answered 400 has been counted.
C7_LimiterBeforeValidation ==
    Handled =>
      /\ ~validate(resp.ep, resp.body)
           => resp.status = (IF resp.hits > limit_of(resp.ep) THEN 429 ELSE 400)
      /\ resp.status = 400
           => /\ resp.hits >= 1
              /\ storage[MinuteKey(resp.client, resp.ep)].count = own[resp.client, resp.ep]

\* a request with an invalid body is refused for the quota, which invalid
\* requests have helped to use up: fewer than ten requests reached the adapter
C7_Witness ==
    /\ resp.status = 429
    /\ ~validate(resp.ep, resp.body)
    /\ reached[resp.client, resp.ep] < limit_of(resp.ep)

\* C8: while its window is current a counter never decreases; once the window
\* has elapsed, the client's next request to the route starts the count again
\* (it is the first of a new window) and is admitted.
C8_Step ==
    \A c \in Clients, ep \in Endpoints :
        LET k == MinuteKey(c, ep)
        IN /\ ~elapsed(c, ep) => storage'[k].count >= storage[k].count
           /\ (elapsed(c, ep) /\ storage'[k] # storage[k])
                => /\ storage'[k] = [count |-> 1, expiry |-> now + MinuteTicks]
                   /\ resp'.client = c /\ resp'.ep = ep
                   /\ resp'.status # 429

C9_Independent ==
    /\ \A c \in Clients, ep \in Endpoints : storage[MinuteKey(c, ep)].count = own[c, ep]
    /\ resp.status = 429 => own[resp.client, resp.ep] > limit_of(resp.ep)

\* client A is over its quota at a route, and B is served there
C9_Witness ==
    /\ resp.client = "B"
    /\ resp.status = 200
    /\ storage[MinuteKey("A", resp.ep)].count > limit_of(resp.ep)
    /\ ~elapsed("A", resp.ep)

\* C10: a request that has arrived comes to a response or to its provider call,
\* and one whose provider call has returned or failed comes to its response,
\* whatever the other requests do; a response once given is the request's only
\* one.
C10_Step ==
    \A r \in 1..MaxReq :
        reqs[r].pc \in Terminal => (reqs'[r] = reqs[r] \/ reqs'[r] = NoReq)

C10_Progress ==
    /\ [][C10_Step]_vars
    /\ \A r \in 1..MaxReq :
         /\ (reqs[r].pc = "received") ~> (reqs[r].pc \in Terminal \cup {"dispatched"})
         /\ (reqs[r].pc = "returned") ~> (reqs[r].pc = "responded")

\* one request is waiting for the provider while another, which came after
\* it, has been refused for the quota
C10_Witness ==
    /\ reqs[1].pc = "dispatched"
    /\ reqs[2].pc = "rate_limited"

====
